---- MODULE Spec2Model ----
(***************************************************************************)
(* Model of src/pagination.js: the closure returned by usePagination.      *)
(* State is the closure's bindings (the options resolved at construction,  *)
(* totalPages, lastPage) together with the most recent call and what it    *)
(* returned.  JavaScript values are modelled as tagged records so that the *)
(* array/number/string corner cases of the source (a write one past the    *)
(* end of an array, a read outside it, "..." + 1, undefined - 1) behave as *)
(* they do in the language.                                                *)
(***************************************************************************)
EXTENDS Integers, Sequences, FiniteSets

\* ------------------------------------------------------------------ bounds
\* maxPagesShown, when given, is drawn from 1..MaxPagesShown.
MaxPagesShown == 7
\* totalPages arguments are drawn from {-5, 0}, 1..MaxTotalPages and 20.
MaxTotalPages == 10

\* The default of maxPagesShown (paginationOptions?.maxPagesShown ?? 7).
DefaultMaxPagesShown == 7

\* ------------------------------------------------------- JavaScript values
Num(n) == [type |-> "number", nan |-> FALSE, num |-> n, str |-> ""]
NaN == [type |-> "number", nan |-> TRUE, num |-> 0, str |-> ""]
Str(s) == [type |-> "string", nan |-> FALSE, num |-> 0, str |-> s]
Undefined == [type |-> "undefined", nan |-> FALSE, num |-> 0, str |-> ""]

\* The literal "..." the source writes into the array.
Ellipsis == Str("...")

Digit(d) == CASE d = 0 -> "0" [] d = 1 -> "1" [] d = 2 -> "2" [] d = 3 -> "3"
              [] d = 4 -> "4" [] d = 5 -> "5" [] d = 6 -> "6" [] d = 7 -> "7"
              [] d = 8 -> "8" [] OTHER -> "9"

RECURSIVE Decimal(_)
Decimal(n) == IF n < 10 THEN Digit(n) ELSE Decimal(n \div 10) \o Digit(n % 10)

\* String(x) of the values that occur.
ToString(x) ==
    CASE x.type = "string" -> x.str
      [] x.type = "undefined" -> "undefined"
      [] x.nan -> "NaN"
      [] x.num < 0 -> "-" \o Decimal(0 - x.num)
      [] OTHER -> Decimal(x.num)

\* Number(x): a non-numeric string and undefined convert to NaN.
ToNumber(x) == IF x.type = "number" THEN x ELSE NaN

\* x - y
Minus(x, y) ==
    LET a == ToNumber(x)
        b == ToNumber(y)
    IN  IF a.nan \/ b.nan THEN NaN ELSE Num(a.num - b.num)

\* x + y: concatenation as soon as one operand is a string.
Plus(x, y) ==
    IF x.type = "string" \/ y.type = "string"
    THEN Str(ToString(x) \o ToString(y))
    ELSE LET a == ToNumber(x)
             b == ToNumber(y)
         IN  IF a.nan \/ b.nan THEN NaN ELSE Num(a.num + b.num)

\* x === y
StrictEq(x, y) == x = y /\ ~(x.type = "number" /\ x.nan)

\* x > y and x < y on numbers; any comparison with NaN is false.
Greater(x, y) ==
    LET a == ToNumber(x)
        b == ToNumber(y)
    IN  ~a.nan /\ ~b.nan /\ a.num > b.num

Less(x, y) == Greater(y, x)

\* Math.max(a, b) on integers
MathMax(a, b) == IF a >= b THEN a ELSE b

\* Math.min(a, b) on integers
MathMin(a, b) == IF a <= b THEN a ELSE b

\* Math.floor(n / 2) on an integer n
FloorHalf(n) == n \div 2

\* Math.ceil(n / 2) on an integer n
CeilHalf(n) == (n + 1) \div 2

\* opt ?? dflt, an absent option being the empty set and a given one {v}
Nullish(opt, dflt) == IF opt = {} THEN dflt ELSE CHOOSE v \in opt : TRUE

\* ------------------------------------------------------- JavaScript arrays
\* Arrays are sequences; index i of the source is position i + 1.
Length(a) == Len(a)

\* a[i]: undefined outside the array
At(a, i) == IF i >= 0 /\ i < Len(a) THEN a[i + 1] ELSE Undefined

RECURSIVE Holes(_)
Holes(n) == IF n <= 0 THEN << >> ELSE Append(Holes(n - 1), Undefined)

\* a[i] = v: in place inside the array, growing it at or past its end, and
\* an ordinary property (no element, no change of length) for negative i.
Put(a, i, v) ==
    IF i < 0 THEN a
    ELSE IF i < Len(a) THEN [a EXCEPT ![i + 1] = v]
    ELSE (a \o Holes(i - Len(a))) \o <<v>>

\* a.slice(from, to)
Slice(a, from, to) == SubSeq(a, from + 1, to)

\* Array.from({ length: n }, (_, i) => f(i)) for the three callbacks used
RECURSIVE ArrayFrom(_, _, _)
ArrayFrom(n, first, step) ==
    IF n <= 0 THEN << >>
    ELSE <<Num(first)>> \o ArrayFrom(n - 1, first + step, step)

RECURSIVE Insert(_, _)
Insert(sorted, x) ==
    IF sorted = << >> THEN <<x>>
    ELSE IF Minus(x, Head(sorted)).num < 0 THEN <<x>> \o sorted
    ELSE <<Head(sorted)>> \o Insert(Tail(sorted), x)

\* a.sort((a, b) => a - b) on an array of integers
RECURSIVE SortAscending(_)
SortAscending(a) ==
    IF a = << >> THEN << >> ELSE Insert(SortAscending(Tail(a)), Head(a))

\* ------------------------------------------------------------------- state
VARIABLES
    maxPagesShown,              \* const maxPagesShown
    middleIndex,                \* const middleIndex
    enableEllipsis,             \* const enableEllipsis
    ellipsisCountsAsPage,       \* const ellipsisCountsAsPage
    showEllipsisIfOnlyOnePage,  \* const showEllipsisIfOnlyOnePage
    enableEllipsisClick,        \* const enableEllipsisClick
    enableFirstLast,            \* const enableFirstLast
    totalPages,                 \* let totalPages
    lastPage,                   \* let lastPage
    totalPagesArg,              \* the totalPages argument most recently given
    called,                     \* the function most recently called
    args,                       \* its arguments
    pages,                      \* the array calculatePages returned
    target                      \* the value calculatePageClick returned

vars == <<maxPagesShown, middleIndex, enableEllipsis, ellipsisCountsAsPage,
          showEllipsisIfOnlyOnePage, enableEllipsisClick, enableFirstLast,
          totalPages, lastPage, totalPagesArg, called, args, pages, target>>

options == <<maxPagesShown, middleIndex, enableEllipsis, ellipsisCountsAsPage,
             showEllipsisIfOnlyOnePage, enableEllipsisClick, enableFirstLast>>

\* The integers given as totalPages / newTotalPages.
TotalPagesArgs == {-5, 0, 20} \cup (1 .. MaxTotalPages)

\* An option left out ({}) or given ({v}).
MaxPagesShownOptions ==
    {{}} \cup {{n} : n \in 1 .. MaxPagesShown}

FlagOptions == {{}, {TRUE}, {FALSE}}

\* ---------------------------------------------------------- calculatePages
\* Mutant of BaseWindow: the window anchored at the end is left in the
\* descending order Array.from builds it in (the sort dropped).
BaseWindowUnsorted(currentPage) ==
    LET n == MathMin(maxPagesShown, totalPages)
    IN  IF currentPage < middleIndex
        THEN ArrayFrom(n, 0, 1)
        ELSE IF currentPage > lastPage - middleIndex
        THEN ArrayFrom(n, lastPage, -1)
        ELSE ArrayFrom(n, currentPage - middleIndex, 1)

\* Phase 1 (lines 51-69): the window before ellipsis and first/last.
BaseWindow(currentPage) ==
    LET n == MathMin(maxPagesShown, totalPages)
    IN  IF currentPage < middleIndex
        THEN ArrayFrom(n, 0, 1)
        ELSE IF currentPage > lastPage - middleIndex
        THEN SortAscending(ArrayFrom(n, lastPage, -1))
        ELSE ArrayFrom(n, currentPage - middleIndex, 1)

\* const middlePage = pages[Math.floor(pages.length / 2)]
MiddlePage(p) == At(p, FloorHalf(Length(p)))

\* middlePage - middleIndex > 0
FrontHidden(middlePage) ==
    Greater(Minus(middlePage, Num(middleIndex)), Num(0))

\* The value inserted at the front when the ellipsis does not count as a page.
FrontEllipsisValue(p, middlePage) ==
    IF showEllipsisIfOnlyOnePage
       /\ StrictEq(Minus(middlePage, Num(middleIndex)), Num(1))
    THEN Minus(At(p, 1), Num(1))
    ELSE Ellipsis

\* Lines 75-93: the front ellipsis.
FrontEllipsis(p, middlePage) ==
    IF ~FrontHidden(middlePage) THEN p
    ELSE IF ellipsisCountsAsPage
    THEN Put(p, IF enableFirstLast THEN 1 ELSE 0, Ellipsis)
    ELSE IF enableFirstLast
    THEN <<At(p, 0), FrontEllipsisValue(p, middlePage)>>
             \o Slice(p, 1, Length(p))
    ELSE <<FrontEllipsisValue(p, middlePage)>> \o p

\* middlePage + middleIndex < lastPage
BackHidden(middlePage) ==
    Less(Plus(middlePage, Num(middleIndex)), Num(lastPage))

\* The value inserted at the back when the ellipsis does not count as a page.
BackEllipsisValue(p, middlePage) ==
    IF showEllipsisIfOnlyOnePage
       /\ StrictEq(Plus(middlePage, Num(middleIndex)), Num(lastPage - 1))
    THEN Plus(At(p, Length(p) - 2), Num(1))
    ELSE Ellipsis

\* Mutant of BackEllipsis: the marker always goes to the last slot, as if
\* enableFirstLast were off.
BackEllipsisLastSlot(p, middlePage) ==
    IF ~BackHidden(middlePage) THEN p
    ELSE IF ellipsisCountsAsPage
    THEN Put(p, Length(p) - 1, Ellipsis)
    ELSE p \o <<BackEllipsisValue(p, middlePage)>>

\* Lines 95-118: the back ellipsis.
BackEllipsis(p, middlePage) ==
    IF ~BackHidden(middlePage) THEN p
    ELSE IF ellipsisCountsAsPage
    THEN Put(p, Length(p) - (IF enableFirstLast THEN 2 ELSE 1), Ellipsis)
    ELSE IF enableFirstLast
    THEN (Slice(p, 0, Length(p) - 1) \o <<BackEllipsisValue(p, middlePage)>>)
             \o <<At(p, Length(p) - 1)>>
    ELSE p \o <<BackEllipsisValue(p, middlePage)>>

\* Lines 72-119: the ellipsis feature.
EllipsisFeature(p) ==
    IF enableEllipsis
    THEN BackEllipsis(FrontEllipsis(p, MiddlePage(p)), MiddlePage(p))
    ELSE p

\* Mutant of FirstLast: only the first slot is forced.
FirstLastFirstOnly(p) ==
    IF enableFirstLast /\ ~StrictEq(At(p, 0), Num(0))
    THEN Put(p, 0, Num(0))
    ELSE p

\* Lines 122-129: the first/last feature.
FirstLast(p) ==
    IF enableFirstLast
    THEN LET q == IF ~StrictEq(At(p, 0), Num(0)) THEN Put(p, 0, Num(0)) ELSE p
         IN  IF ~StrictEq(At(q, Length(q) - 1), Num(lastPage))
             THEN Put(q, Length(q) - 1, Num(lastPage))
             ELSE q
    ELSE p

calculatePages(pageIndex) == FirstLast(EllipsisFeature(BaseWindow(pageIndex)))

\* ------------------------------------------------------ calculatePageClick
\* Mutant of calculatePageClick: the button at middleIndex counts as front.
calculatePageClickInclusive(currentPage, clickedPage, buttonIndex) ==
    IF clickedPage.type = "number" THEN clickedPage
    ELSE IF enableEllipsisClick
    THEN IF buttonIndex <= middleIndex
         THEN Num(FloorHalf(currentPage))
         ELSE Num(CeilHalf(currentPage + lastPage))
    ELSE Undefined

calculatePageClick(currentPage, clickedPage, buttonIndex) ==
    IF clickedPage.type = "number" THEN clickedPage
    ELSE IF enableEllipsisClick
    THEN IF buttonIndex < middleIndex
         THEN Num(FloorHalf(currentPage))
         ELSE Num(CeilHalf(currentPage + lastPage))
    ELSE Undefined

\* ----------------------------------------------------------------- actions
\* usePagination(paginationOptions)
Init ==
    \E total \in TotalPagesArgs, shown \in MaxPagesShownOptions,
       e \in FlagOptions, c \in FlagOptions, s \in FlagOptions,
       k \in FlagOptions, f \in FlagOptions :
        /\ totalPagesArg = total
        /\ totalPages = MathMax(total, 1)
        /\ lastPage = MathMax(total, 1) - 1
        /\ maxPagesShown = Nullish(shown, DefaultMaxPagesShown)
        /\ middleIndex = FloorHalf(Nullish(shown, DefaultMaxPagesShown))
        /\ enableEllipsis = Nullish(e, TRUE)
        /\ ellipsisCountsAsPage = Nullish(c, TRUE)
        /\ showEllipsisIfOnlyOnePage = Nullish(s, TRUE)
        /\ enableEllipsisClick = Nullish(k, TRUE)
        /\ enableFirstLast = Nullish(f, TRUE)
        /\ called = "usePagination"
        /\ args = <<Num(total)>>
        /\ pages = << >>
        /\ target = Undefined

\* Mutant of UpdateTotalPages: the new total is stored without Math.max.
UpdateTotalPagesUnclamped ==
    \E newTotalPages \in TotalPagesArgs :
        /\ totalPages' = newTotalPages
        /\ lastPage' = newTotalPages - 1
        /\ totalPagesArg' = newTotalPages
        /\ called' = "updateTotalPages"
        /\ args' = <<Num(newTotalPages)>>
        /\ pages' = << >>
        /\ target' = Undefined
        /\ UNCHANGED options

\* updateTotalPages(newTotalPages)
UpdateTotalPages ==
    \E newTotalPages \in TotalPagesArgs :
        /\ totalPages' = MathMax(newTotalPages, 1)
        /\ lastPage' = MathMax(newTotalPages, 1) - 1
        /\ totalPagesArg' = newTotalPages
        /\ called' = "updateTotalPages"
        /\ args' = <<Num(newTotalPages)>>
        /\ pages' = << >>
        /\ target' = Undefined
        /\ UNCHANGED options

\* calculatePages(pageIndex), the caller keeping pageIndex in [0, lastPage]
CalculatePages ==
    \E pageIndex \in 0 .. lastPage :
        /\ pages' = calculatePages(pageIndex)
        /\ called' = "calculatePages"
        /\ args' = <<Num(pageIndex)>>
        /\ target' = Undefined
        /\ UNCHANGED <<options, totalPages, lastPage, totalPagesArg>>

\* calculatePageClick(currentPage, clickedPage, buttonIndex) on a slot of the
\* window just rendered: the slot's value and its index, for the page shown.
CalculatePageClick ==
    /\ called = "calculatePages"
    /\ \E buttonIndex \in 0 .. Length(pages) - 1 :
        /\ target' = calculatePageClick(args[1].num, At(pages, buttonIndex),
                                        buttonIndex)
        /\ called' = "calculatePageClick"
        /\ args' = <<args[1], At(pages, buttonIndex), Num(buttonIndex)>>
        /\ pages' = << >>
        /\ UNCHANGED <<options, totalPages, lastPage, totalPagesArg>>

Next == UpdateTotalPages \/ CalculatePages \/ CalculatePageClick

Spec == Init /\ [][Next]_vars

\* ------------------------------------------------------------------ claims
\* x is a page index: a number that is not NaN.
IsInt(x) == x.type = "number" /\ ~x.nan

\* A window has just been returned for the page CurrentPage.
Rendered == called = "calculatePages"

CurrentPage == args[1].num

\* The options all at their defaults.
DefaultFlags ==
    /\ enableEllipsis
    /\ ellipsisCountsAsPage
    /\ showEllipsisIfOnlyOnePage
    /\ enableFirstLast

\* The pages from, from + 1, ..., to, one per slot.
Consecutive(from, to) == [i \in 1 .. (to - from + 1) |-> Num(from + i - 1)]

\* C1 (as stated): with enableFirstLast, the returned window has page 0 in
\* its first slot and page lastPage in its last slot.
C1_FirstAndLastPinned ==
    (Rendered /\ enableFirstLast) =>
        /\ At(pages, 0) = Num(0)
        /\ At(pages, Length(pages) - 1) = Num(lastPage)

\* C1 (amended): with enableFirstLast, the last slot of the returned window
\* holds lastPage, and the first slot holds page 0 whenever the window has
\* at least two slots or there is a single page; a one-slot window (only
\* maxPagesShown = 1 gives one when there are several pages) holds lastPage.
C1_LastPinnedFirstWhenRoom ==
    (Rendered /\ enableFirstLast) =>
        /\ At(pages, Length(pages) - 1) = Num(lastPage)
        /\ (Length(pages) >= 2 \/ totalPages = 1) => At(pages, 0) = Num(0)
        /\ (totalPages > 1 /\ Length(pages) < 2) => maxPagesShown = 1

C1_Witness ==
    /\ Rendered
    /\ enableFirstLast
    /\ totalPages > maxPagesShown
    /\ maxPagesShown >= 2
    /\ CurrentPage > middleIndex
    /\ CurrentPage < lastPage - middleIndex
    /\ At(pages, 0) = Num(0)
    /\ At(pages, Length(pages) - 1) = Num(lastPage)

\* C2 (as stated): the window is never longer than maxPagesShown when the
\* ellipsis counts as a page or is disabled, and never longer than
\* maxPagesShown + 2 otherwise.
C2_LengthBounded ==
    Rendered =>
        /\ (ellipsisCountsAsPage \/ ~enableEllipsis)
               => Length(pages) <= maxPagesShown
        /\ Length(pages) <= maxPagesShown + 2

\* C3: whenever totalPages <= maxPagesShown the returned window is exactly
\* 0, 1, ..., totalPages - 1, whatever the flags and the current page.
C3_AllPagesWhenTheyFit ==
    (Rendered /\ totalPages <= maxPagesShown) =>
        pages = Consecutive(0, totalPages - 1)

C3_Witness ==
    /\ Rendered
    /\ totalPages = 5
    /\ maxPagesShown = DefaultMaxPagesShown
    /\ CurrentPage = 4
    /\ pages = <<Num(0), Num(1), Num(2), Num(3), Num(4)>>

\* C4: with the default flags, maxPagesShown >= 5 and pages hidden on both
\* sides of the current page, the window has exactly maxPagesShown slots:
\* page 0, an ellipsis, the pages of base slots 2 .. maxPagesShown - 3 (the
\* current page standing at base slot middleIndex), an ellipsis, lastPage;
\* totalPages = 20, maxPagesShown = 7, page 10 gives
\* [0, "...", 9, 10, 11, "...", 19].
C4_BothEllipses ==
    /\ (/\ Rendered
        /\ DefaultFlags
        /\ maxPagesShown >= 5
        /\ middleIndex < CurrentPage
        /\ CurrentPage < lastPage - middleIndex) =>
            /\ Length(pages) = maxPagesShown
            /\ At(pages, 0) = Num(0)
            /\ At(pages, 1) = Ellipsis
            /\ \A i \in 2 .. maxPagesShown - 3 :
                   At(pages, i) = Num(CurrentPage - middleIndex + i)
            /\ At(pages, maxPagesShown - 2) = Ellipsis
            /\ At(pages, maxPagesShown - 1) = Num(lastPage)
    /\ (/\ Rendered
        /\ DefaultFlags
        /\ totalPages = 20
        /\ maxPagesShown = 7
        /\ CurrentPage = 10) =>
            pages = <<Num(0), Ellipsis, Num(9), Num(10), Num(11), Ellipsis,
                      Num(19)>>

C4_Witness ==
    /\ Rendered
    /\ DefaultFlags
    /\ totalPages = 20
    /\ maxPagesShown = 7
    /\ CurrentPage = 10
    /\ Length(pages) = 7

\* C5: totalPages is max(n, 1) for the integer n most recently given to
\* updateTotalPages (or to usePagination), and lastPage is totalPages - 1;
\* so totalPages >= 1, the arguments 0 and -5 leave totalPages = 1 and
\* lastPage = 0, and calculatePages / calculatePageClick change neither.
C5_TotalPagesClamped ==
    /\ totalPages >= 1
    /\ totalPagesArg >= 1 => totalPages = totalPagesArg
    /\ totalPagesArg < 1 => totalPages = 1
    /\ lastPage = totalPages - 1
    /\ totalPagesArg \in {0, -5} => (totalPages = 1 /\ lastPage = 0)

C5_Witness ==
    /\ called = "calculatePageClick"
    /\ totalPagesArg = -5
    /\ totalPages = 1
    /\ lastPage = 0

\* The reference of C6, from the total most recently given.
ResolveClickReference(currentPage, clickedValue, buttonIndex) ==
    LET lastPageIndex == (IF totalPagesArg > 1 THEN totalPagesArg ELSE 1) - 1
        towardsEnd == currentPage + lastPageIndex
    IN  IF IsInt(clickedValue) THEN clickedValue
        ELSE IF ~enableEllipsisClick THEN Undefined
        ELSE IF 2 * buttonIndex + 1 < maxPagesShown
        THEN Num((currentPage - (currentPage % 2)) \div 2)
        ELSE Num((towardsEnd + (towardsEnd % 2)) \div 2)

\* The values a click can carry: a page index or a marker.
ClickedValues(page) == {Num(0), Num(page), Num(lastPage), Ellipsis}

\* C6: calculatePageClick returns a clicked page index unchanged, whatever
\* the current page and the button index; for an ellipsis it returns
\* undefined when enableEllipsisClick is off, and otherwise
\* floor(currentPage / 2) if buttonIndex < middleIndex and
\* ceil((currentPage + lastPage) / 2) if not, lastPage being that of the
\* most recent updateTotalPages.
C6_ClickReference ==
    /\ (called = "calculatePageClick"
            /\ (args[2].type # "number" \/ IsInt(args[2])))
           => target = ResolveClickReference(args[1].num, args[2], args[3].num)
    /\ called = "updateTotalPages" =>
           \A currentPage \in -1 .. lastPage + 1 :
               \A buttonIndex \in -1 .. maxPagesShown + 2 :
                   \A clickedPage \in ClickedValues(currentPage) :
                       calculatePageClick(currentPage, clickedPage, buttonIndex)
                           = ResolveClickReference(currentPage, clickedPage,
                                                   buttonIndex)

C6_Witness ==
    /\ called = "calculatePageClick"
    /\ totalPagesArg = 20
    /\ args = <<Num(10), Ellipsis, Num(5)>>
    /\ target = Num(15)

\* C7 (as stated): the returned window never runs off [0, lastPage] and the
\* current page is one of its slots.
C7_InRangeAndCurrentVisible ==
    Rendered =>
        /\ \A i \in 0 .. Length(pages) - 1 :
               At(pages, i).type = "number" =>
                   /\ IsInt(At(pages, i))
                   /\ At(pages, i).num \in 0 .. lastPage
        /\ \E i \in 0 .. Length(pages) - 1 : At(pages, i) = Num(CurrentPage)

\* C8 (as stated): with enableEllipsis, the ellipsis not counting as a page
\* and showEllipsisIfOnlyOnePage, when exactly one page is hidden at the
\* front (middlePage - middleIndex = 1) the window starts 0, 1, ...,
\* middlePage, and when middlePage + middleIndex = lastPage - 1 it ends
\* middlePage, ..., lastPage: the hidden page is shown, no marker.
C8_SingleHiddenPageShown ==
    (/\ Rendered
     /\ enableEllipsis
     /\ ~ellipsisCountsAsPage
     /\ showEllipsisIfOnlyOnePage) =>
        LET middlePage == MiddlePage(BaseWindow(CurrentPage)).num
            n == Length(pages)
        IN  /\ middlePage - middleIndex = 1 =>
                /\ n >= middlePage + 1
                /\ SubSeq(pages, 1, middlePage + 1) = Consecutive(0, middlePage)
            /\ middlePage + middleIndex = lastPage - 1 =>
                /\ n >= lastPage - middlePage + 1
                /\ SubSeq(pages, n - (lastPage - middlePage), n)
                       = Consecutive(middlePage, lastPage)

\* The slot in which the front rule left a marker for the current page, and
\* the one in which the back rule did (sets of at most one index).
FrontMarkerSlots ==
    LET base == BaseWindow(CurrentPage)
        m == MiddlePage(base)
    IN  {i \in {IF enableFirstLast THEN 1 ELSE 0} :
            /\ enableEllipsis
            /\ FrontHidden(m)
            /\ (ellipsisCountsAsPage \/ FrontEllipsisValue(base, m) = Ellipsis)}

BackMarkerSlots ==
    LET base == BaseWindow(CurrentPage)
        m == MiddlePage(base)
        front == FrontEllipsis(base, m)
    IN  {i \in {Length(pages) - (IF enableFirstLast THEN 2 ELSE 1)} :
            /\ enableEllipsis
            /\ BackHidden(m)
            /\ (ellipsisCountsAsPage \/ BackEllipsisValue(front, m) = Ellipsis)}

\* C9 (as stated): with enableEllipsisClick, clicking an ellipsis slot of the
\* returned window with its index resolves to the side the marker stands
\* for: a front marker has index < middleIndex and gives
\* floor(currentPage / 2), a page of [0, lastPage] below the current page; a
\* back marker has index >= middleIndex and gives
\* ceil((currentPage + lastPage) / 2), a page of [0, lastPage] above it.
C9_EllipsisClickSide ==
    (Rendered /\ enableEllipsisClick) =>
        \A i \in 0 .. Length(pages) - 1 :
            At(pages, i) = Ellipsis =>
                LET to == calculatePageClick(CurrentPage, Ellipsis, i)
                IN  /\ (i \in FrontMarkerSlots \ BackMarkerSlots) =>
                           /\ i < middleIndex
                           /\ to = Num(FloorHalf(CurrentPage))
                           /\ to.num \in 0 .. lastPage
                           /\ to.num < CurrentPage
                    /\ i \in BackMarkerSlots =>
                           /\ i >= middleIndex
                           /\ to = Num(CeilHalf(CurrentPage + lastPage))
                           /\ to.num \in 0 .. lastPage
                           /\ to.num > CurrentPage

\* C10 (as stated): with enableEllipsis, two adjacent slots of the returned
\* window that are both page numbers hold consecutive pages.
C10_NoSilentGap ==
    (Rendered /\ enableEllipsis) =>
        \A i \in 0 .. Length(pages) - 2 :
            (IsInt(At(pages, i)) /\ IsInt(At(pages, i + 1))) =>
                At(pages, i + 1).num = At(pages, i).num + 1
====
